---------------------------- MODULE Spec2Model ----------------------------
(***************************************************************************)
(* A model of the two subsystems of the membership application that carry  *)
(* state machines: the recurring-fee generator (useFirebaseData.ts:        *)
(* useDues, useAutoDueGeneration) and the chat engine                      *)
(* (useChatAndNotifications.ts: useChat).                                  *)
(*                                                                         *)
(* Each subsystem has its own specification over the module's variables;   *)
(* the variables of the other subsystems stay at their initial values.     *)
(*   Spec          several instances of the due generator                  *)
(*   SpecFeeAdmin  one instance, and an admin recording and deleting       *)
(*                 payments                                                *)
(*   SpecWindow    one client's message window of one room                 *)
(*   SpecChat      two members sending, the unread fan-out, a reader       *)
(*   SpecReact     two members reacting to the messages of a room, and a   *)
(*                 deletion                                                *)
(*   SpecTyping    the typing indicator of one member                      *)
(*   SpecReceipts  clients recording payments and marking dues paid        *)
(*                                                                         *)
(* Dates.  A 'yyyy-MM-dd' string is the tuple <<y, m, d>>; a Date object   *)
(* is the number of days since 2024-01-01 (local midnight).  parseISO and  *)
(* format convert between the two with the Gregorian month lengths.  The   *)
(* time of day of `new Date()` is dropped: differenceInDays counts full    *)
(* days and its right operand is always a midnight.                        *)
(*                                                                         *)
(* Documents.  A Firestore collection is a bag of document data: the       *)
(* document id is an opaque unique key that the code only hands back to    *)
(* the store, so a document is one occurrence in the bag.                  *)
(*                                                                         *)
(* Messages.  A room of the Realtime Database is the sequence of its       *)
(* children in key order; push keys are chronological, so the key of a     *)
(* message is its position.  Message text is a tuple of characters.        *)
(***************************************************************************)
EXTENDS Integers, Sequences, FiniteSets, Bags, TLC

VARIABLES
    \* ---- Firestore ------------------------------------------------------
    members,          \* collection 'members', in snapshot order
    dues,             \* collection 'dues': a bag of FeeRecords
    activities,       \* collection 'activities': the (type, memberId) written
    now,              \* the wall clock, as a Date (day number)
    \* ---- one useAutoDueGeneration instance per client -------------------
    membersView,      \* the `members` argument (useMembers state) of the hook
    pendingTrigger,   \* a change of [members, dues] not yet seen by the effect
    processingRef,    \* processingRef.current
    pc,               \* "idle" | "fetch" (awaiting getDocs) | "loop" (awaiting addDoc)
    passMembers,      \* `members` captured by the running pass
    today,            \* `today` of the running pass
    idx,              \* index of the member the for-loop is at
    freshMemberDues,  \* freshMemberDues of the current member
    latestPeriodEnd,  \* latestPeriodEnd of the current member
    \* ---- history (not program state) ------------------------------------
    chain,            \* FeeRecords the running pass created for its current member
    quiet,            \* "disturbed": the dues or the date changed other than by
                      \*    a pass running alone; "clean": not since the start of
                      \*    a pass; "once", "twice": so many passes have completed
                      \*    since, one after the other, with no change in between
    \* ---- Realtime Database ----------------------------------------------
    log,              \* chat/group and chat/private/<roomId>: per room, the
                      \*    children in key order (the key is the position)
    unread,           \* unread/<memberId>/<roomId>; 0 is an absent node
    chatMeta,         \* chatMeta/<roomId>
    \* ---- one useChat subscription to one room ---------------------------
    viewRoom,         \* the room the subscription is to
    cancelled,        \* `cancelled` of the subscription
    localMessages,    \* groupMessages, or privateMessages[roomId]
    initialLoadDone,  \* initialLoadDone / pmInitialLoadDone
    windowGet,        \* get(windowQuery): "sent" | "replied" | "done", snapshot
    events,           \* child-added / child-changed events on their way
    \* ---- useChat of each member: sending --------------------------------
    chatMembers,      \* the `members` state of useChat
    sendPc,           \* "idle" | "push" (awaiting push) | "fanout"
    sendResult,       \* the promise the last send call returned: "none" |
                      \*    "pending" | "resolved" | "rejected"
    msgData,          \* msgData of the send in progress
    metaWrites,       \* set(chatMeta/<roomId>, ...) calls on their way
    recipientIds,     \* recipientIds handed to incrementUnread
    chunkAt,          \* i of incrementUnread's for-loop
    txn,              \* runTransaction per target: st "queued" | "sent" |
                      \*    "done" | "failed", and cur, the value the update
                      \*    function was last run on
    \* ---- history (not program state) ------------------------------------
    issued,           \* increments incrementUnread has issued per counter
    voided,           \* the counter was removed by markRoomRead, or an
                      \*    increment to it failed
    applied,          \* per sender: the increments its last fan-out committed
    fanout,           \* per sender, its last fan-out: "none" | "running" |
                      \*    "completed" | "failed"
    \* ---- useChat of each member: reacting -------------------------------
    react,            \* runTransaction of addReaction: st "idle" | "sent",
                      \*    the message and emoji, and cur, the list the
                      \*    update function was last run on
    \* ---- history (not program state) ------------------------------------
    parity,           \* per message, emoji and member: the member's toggles
                      \*    committed since the message's reactions were last
                      \*    removed are odd in number
    lastToggle,       \* the last toggle committed: by whom, on which message
                      \*    and emoji, the members of the list before it, and
                      \*    whether the toggle before it was by the same
                      \*    member on the same message and emoji
    \* ---- useTypingIndicator of one member -------------------------------
    nowMs,            \* Date.now()
    lastTypingWriteRef, \* lastTypingWriteRef.current
    typingTimeoutRef, \* typingTimeoutRef.current: when the timer fires, or
                      \*    NoTimer
    typing,           \* typing/<memberId>: the room id, or NoTyping
    \* ---- history (not program state) ------------------------------------
    typingWrites,     \* the set(presenceRef, ...) calls issued: when the last
                      \*    one and the last one by setTyping were, and the
                      \*    shortest time between two in a row
    lastSetTyping,    \* when setTyping was last called, or NoWrite if never
                      \*    or if clearTyping was called since
    \* ---- usePresence of the same member ---------------------------------
    mounted,          \* the effect ran and its cleanup did not
    tab,              \* "visible", "hidden" (document.visibilityState), or
                      \*    "gone" once the page is unloaded
    connected,        \* .info/connected
    outbox,           \* the client's writes the server has not yet applied,
                      \*    oldest first: "online", "offline", "hook"
                      \*    (onDisconnect().set) or "typing"
    online,           \* presence/<memberId>/online on the server
    onDisconnectSet,  \* the server holds an on-disconnect write for
                      \*    presence/<memberId>
    \* ---- history (not program state) ------------------------------------
    presenceEvents,   \* how many events of the tab and the socket happened
    lastEvent         \* the last of them: "connect", "visible", "hidden",
                      \*    "unload", "teardown", "disconnect", or "none"

feeStore == <<members, dues, activities, now>>
feeHook  == <<membersView, pendingTrigger, processingRef, pc, passMembers,
              today, idx, freshMemberDues, latestPeriodEnd>>
feeHist  == <<chain, quiet>>
feeVars  == <<feeStore, feeHook, feeHist>>

chatStore == <<log, unread, chatMeta>>
chatView  == <<viewRoom, cancelled, localMessages, initialLoadDone, windowGet,
               events>>
chatSend  == <<chatMembers, sendPc, sendResult, msgData, metaWrites,
               recipientIds, chunkAt, txn>>
chatHist  == <<issued, voided, applied, fanout>>
chatReact == <<react, parity, lastToggle>>
chatVars  == <<chatStore, chatView, chatSend, chatHist, chatReact>>

presenceVars == <<mounted, tab, connected, outbox, online, onDisconnectSet,
                  presenceEvents, lastEvent>>

typingVars == <<nowMs, lastTypingWriteRef, typingTimeoutRef, typing,
                typingWrites, lastSetTyping, presenceVars>>

vars == <<feeVars, chatVars, typingVars>>

-----------------------------------------------------------------------------
(* Bounds of the model *)

MaxDues     == 3     \* documents held in 'dues' at one time
MaxDay      == 74    \* last day the clock reaches (74: 2024-03-15)
MaxPayments == 1     \* manual payments held in 'dues' at one time
MaxPushes   == 3     \* messages appended to a room during one subscription
MaxDeletes  == 1     \* deleted messages in a room during one subscription
MaxTicks    == 5     \* steps of the clock between two long waits
MaxWaits    == 1     \* long waits of the clock
MaxReceipts == 2     \* payments recorded or dues marked paid
MaxSends    == 2     \* messages sent through the senders' useChat
MaxEvents   == 4     \* events of the tab and the socket of one usePresence

\* browser tabs (or mounted instances) running the due generator
Clients == {1, 2}

-----------------------------------------------------------------------------
(* date-fns *)

IsLeap(y) == (y % 4 = 0 /\ y % 100 # 0) \/ y % 400 = 0

YearLen(y) == IF IsLeap(y) THEN 366 ELSE 365

DaysInMonth(y, m) ==
    IF m = 2 THEN (IF IsLeap(y) THEN 29 ELSE 28)
    ELSE IF m \in {4, 6, 9, 11} THEN 30 ELSE 31

RECURSIVE DaysBeforeYear(_)
DaysBeforeYear(y) ==
    IF y <= 2024 THEN 0 ELSE DaysBeforeYear(y - 1) + YearLen(y - 1)

RECURSIVE DaysBeforeMonth(_, _)
DaysBeforeMonth(y, m) ==
    IF m <= 1 THEN 0 ELSE DaysBeforeMonth(y, m - 1) + DaysInMonth(y, m - 1)

\* parseISO('yyyy-MM-dd'): the Date at local midnight of that day
parseISO(s) == DaysBeforeYear(s[1]) + DaysBeforeMonth(s[1], s[2]) + (s[3] - 1)

RECURSIVE FormatFrom(_, _, _)
FormatFrom(y, m, n) ==
    IF n >= YearLen(y) /\ m = 1 THEN FormatFrom(y + 1, 1, n - YearLen(y))
    ELSE IF n >= DaysInMonth(y, m) THEN FormatFrom(y, m + 1, n - DaysInMonth(y, m))
    ELSE <<y, m, n + 1>>

\* format(date, 'yyyy-MM-dd')
format(date) == FormatFrom(2024, 1, date)

addDays(date, amount) == date + amount

\* differenceInDays(dateLeft, dateRight): full days from dateRight to dateLeft
differenceInDays(dateLeft, dateRight) == dateLeft - dateRight

-----------------------------------------------------------------------------
(* Members and FeeRecords *)

NoDate == <<>>     \* an absent joinDate

\* Member documents the model starts from.  A joined 2024-01-01; B has no
\* joinDate and was created 2024-01-15.
MemberA == [id |-> 1, name |-> "A", status |-> "active",
            joinDate |-> <<2024, 1, 1>>,
            createdAt |-> [date |-> <<2024, 1, 1>>, time |-> "09:00:00.000Z"],
            monthlyFee |-> 500]

MemberB(st) == [id |-> 2, name |-> "B", status |-> st,
                joinDate |-> NoDate,
                createdAt |-> [date |-> <<2024, 1, 15>>, time |-> "18:30:00.000Z"],
                monthlyFee |-> 300]

MemberLists == { <<MemberA, MemberB("active")>>,
                 <<MemberB("inactive"), MemberA>> }

\* periods an admin enters in the payment form
PayPeriods == { [periodStart |-> <<2024, 2, 1>>, periodEnd |-> <<2024, 2, 10>>],
                [periodStart |-> <<2024, 3, 1>>, periodEnd |-> <<2024, 3, 30>>] }

\* the days the clock stops at after 2024-01-30: 2024-01-31 and MaxDay
ClockDays == {parseISO(<<2024, 1, 31>>), MaxDay}

\* member.createdAt.split('T')[0]
SplitT0(createdAt) == createdAt.date

\* checkAndCreateDues: the anchor date of a member
JoinDate(member) ==
    IF member.joinDate # NoDate
        THEN parseISO(member.joinDate)
        ELSE parseISO(SplitT0(member.createdAt))

\* duesSnap.docs.map(...).filter(d => d.memberId === member.id)
FreshMemberDues(memberId) ==
    [d \in {x \in BagToSet(dues) : x.memberId = memberId} |-> dues[d]]

\* [...freshMemberDues].sort(periodEnd descending)[0].periodEnd, parsed;
\* joinDate when the member has no dues
LatestPeriodEnd(fresh, joinDate) ==
    IF BagCardinality(fresh) > 0
        THEN LET first == CHOOSE d \in BagToSet(fresh) :
                            \A e \in BagToSet(fresh) :
                                parseISO(d.periodEnd) >= parseISO(e.periodEnd)
             IN  parseISO(first.periodEnd)
        ELSE joinDate

\* faulty variant: the while condition with > for >=
PeriodDueStrict(t, latest) == differenceInDays(t, latest) > 30

\* the while condition
PeriodDue(t, latest) == differenceInDays(t, latest) >= 30

\* faulty variant: the new period starts on the latest period's last day
NewPeriodStartSameDay(latest) == format(addDays(latest, 0))

NewPeriodStart(latest) == format(addDays(latest, 1))

NewPeriodEnd(latest) == format(addDays(latest, 30))

\* freshMemberDues.some(d => d.periodStart === newPeriodStart || d.periodEnd === newPeriodEnd)
Overlapping(fresh, latest) ==
    \E d \in BagToSet(fresh) :
        \/ d.periodStart = NewPeriodStart(latest)
        \/ d.periodEnd = NewPeriodEnd(latest)

\* faulty variant: newDue with periodEnd taken from newPeriodStart
NewDueEndIsStart(member, latest) ==
    [memberId    |-> member.id,
     memberName  |-> member.name,
     periodStart |-> NewPeriodStart(latest),
     periodEnd   |-> NewPeriodStart(latest),
     amount      |-> member.monthlyFee,
     dueDate     |-> NewPeriodEnd(latest),
     status      |-> "pending"]

\* newDue
NewDue(member, latest) ==
    [memberId    |-> member.id,
     memberName  |-> member.name,
     periodStart |-> NewPeriodStart(latest),
     periodEnd   |-> NewPeriodEnd(latest),
     amount      |-> member.monthlyFee,
     dueDate     |-> NewPeriodEnd(latest),
     status      |-> "pending"]

\* the document recordPayment adds
PaidDue(member, period) ==
    [memberId    |-> member.id,
     memberName  |-> member.name,
     periodStart |-> period.periodStart,
     periodEnd   |-> period.periodEnd,
     amount      |-> member.monthlyFee,
     dueDate     |-> period.periodEnd,
     status      |-> "paid"]

\* index of the next member after i that the for-loop does not `continue` past
\* on status, 0 when the loop is over
NextActive(ms, i) ==
    LET S == {j \in (i + 1)..Len(ms) : ms[j].status = "active"}
    IN  IF S = {} THEN 0 ELSE CHOOSE j \in S : \A k \in S : j <= k

\* the FeeRecords reconciliation created: it alone writes pending records
Generated == {d \in BagToSet(dues) : d.status = "pending"}

-----------------------------------------------------------------------------
(* Chat: members, rooms, messages *)

GROUP_MESSAGES_LIMIT == 1200

PRIVATE_MESSAGES_LIMIT == 600

UNREAD_CHUNK_SIZE == 25
TYPING_THROTTLE_MS == 450
SELF_CLEAR_MS == 3000

MemberC == [id |-> 3, name |-> "C", status |-> "active",
            joinDate |-> <<2024, 1, 20>>,
            createdAt |-> [date |-> <<2024, 1, 20>>, time |-> "10:00:00.000Z"],
            monthlyFee |-> 400]

\* collection 'members' as the chat sees it
ChatMemberList == <<MemberA, MemberB("active"), MemberC>>

MemberIds == {ChatMemberList[i].id : i \in 1..Len(ChatMemberList)}

\* the members whose useChat sends; the third only receives
Senders == {MemberA.id, MemberB("active").id}

\* the members who open a room and so reset its counter
Readers == MemberIds \ Senders

\* roomId of the group room: 'group'
GroupRoom == <<"group">>

\* faulty variant: [memberId1, memberId2].join('_')
getPrivateRoomIdUnsorted(memberId1, memberId2) ==
    <<memberId1, "_", memberId2>>

\* [memberId1, memberId2].sort().join('_'); ids are compared as the one-character
\* strings they stand for
getPrivateRoomId(memberId1, memberId2) ==
    LET sorted == IF memberId1 <= memberId2
                     THEN <<memberId1, memberId2>>
                     ELSE <<memberId2, memberId1>>
    IN  <<sorted[1], "_", sorted[2]>>

Rooms == {GroupRoom, getPrivateRoomId(MemberA.id, MemberB("active").id)}

\* limitToLast(...) of the window query of a room
Limit(roomId) ==
    IF roomId = GroupRoom THEN GROUP_MESSAGES_LIMIT ELSE PRIVATE_MESSAGES_LIMIT

\* a string is the tuple of its characters
RECURSIVE TrimStart(_)
TrimStart(str) ==
    IF str # <<>> /\ Head(str) = " " THEN TrimStart(Tail(str)) ELSE str

RECURSIVE TrimEnd(_)
TrimEnd(str) ==
    IF str # <<>> /\ str[Len(str)] = " "
        THEN TrimEnd(SubSeq(str, 1, Len(str) - 1)) ELSE str

\* content.trim()
Trim(str) == TrimEnd(TrimStart(str))

\* str.slice(0, n)
Slice0(str, n) == SubSeq(str, 1, IF Len(str) < n THEN Len(str) ELSE n)

\* what a user types into the message box
Contents == {<<"h", "i">>, <<" ">>}

\* msgData of a text message
MsgData(senderId, content, roomId) ==
    [senderId |-> senderId, content |-> Trim(content), type |-> "text",
     roomId |-> roomId]

\* msgData before any send
NoMsg == MsgData(0, <<>>, GroupRoom)

\* chatMeta of a room nobody has written to
NoMeta == [lastMessage |-> <<>>, lastSenderId |-> 0]

\* { id, ...data }
WithId(id, data) == [k \in {"id"} |-> id] @@ data

\* { ...a, ...b }
Spread(a, b) == b @@ a

\* msgData with the fields a room keeps of a message besides those of MsgData
ChatMessage(senderId, senderName, content, roomId, timestamp) ==
    [senderName |-> senderName, timestamp |-> timestamp]
        @@ MsgData(senderId, content, roomId)

\* if (replyTo) msgData.replyTo = replyTo
WithReplyTo(data, replyTo) == [k \in {"replyTo"} |-> replyTo] @@ data

\* faulty variant: set(msgRef, ...) in place of update(msgRef, ...)
DeletedBySet(data) == [content |-> <<>>, type |-> "deleted"]

\* the message after update(msgRef, { content: '', type: 'deleted',
\* reactions: null, replyTo: null }): a null removes the child
Deleted(data) ==
    LET patch   == [content |-> <<>>, type |-> "deleted"]
        updated == patch @@ data
    IN  [k \in DOMAIN updated \ {"reactions", "replyTo"} |-> updated[k]]

\* the emoji of the reaction bar the members use
Emojis == {"+1"}

\* the members whose useChat reacts
Reactors == Senders

\* list.includes(id)
Includes(list, id) == \E i \in DOMAIN list : list[i] = id

\* the ids of a list
Ids(list) == {list[i] : i \in DOMAIN list}

\* faulty variant: a reaction is only ever added
ToggledAddOnly(list, currentMemberId) ==
    IF Includes(list, currentMemberId)
        THEN list
        ELSE Append(list, currentMemberId)

\* the update function of addReaction, run on list = current || []
Toggled(list, currentMemberId) ==
    IF Includes(list, currentMemberId)
        THEN SelectSeq(list, LAMBDA id : id # currentMemberId)
        ELSE Append(list, currentMemberId)

\* current || [] of the node <messageId>/reactions/<emoji>
ReactionList(data, emoji) ==
    IF "reactions" \in DOMAIN data /\ emoji \in DOMAIN data.reactions
        THEN data.reactions[emoji]
        ELSE <<>>

\* the message after the transaction has stored list at reactions/<emoji>;
\* the database keeps no empty array and no childless node
WithReactionList(data, emoji, list) ==
    LET old  == IF "reactions" \in DOMAIN data THEN data.reactions ELSE <<>>
        kept == [e \in DOMAIN old \ {emoji} |-> old[e]]
        new  == IF list = <<>> THEN kept ELSE [e \in {emoji} |-> list] @@ kept
        rest == [k \in DOMAIN data \ {"reactions"} |-> data[k]]
    IN  IF DOMAIN new = {} THEN rest ELSE [k \in {"reactions"} |-> new] @@ rest

\* lastToggle before any toggle
NoToggle == [by |-> 0, messageId |-> 0, emoji |-> "", before |-> {},
             twice |-> FALSE]

\* no addReaction is under way
ReactAtRest ==
    /\ react = [m \in Reactors |->
                   [st |-> "idle", messageId |-> 0, emoji |-> "", cur |-> <<>>]]
    /\ parity = [i \in 1..MaxPushes |->
                    [e \in Emojis |-> [m \in Reactors |-> FALSE]]]
    /\ lastToggle = NoToggle

\* typing/<memberId> is absent
NoTyping == <<>>

\* typingTimeoutRef.current holds no running timer
NoTimer == -1

\* no write yet, or fewer than two
NoWrite == -1

\* typingWrites before any write
NoWrites == [at |-> NoWrite, gap |-> NoWrite, setAt |-> NoWrite,
             setGap |-> NoWrite]

\* no usePresence is mounted; the member was offline when last seen
PresenceAtRest ==
    /\ mounted = FALSE
    /\ tab = "visible"
    /\ connected = FALSE
    /\ outbox = <<>>
    /\ online = FALSE
    /\ onDisconnectSet = FALSE
    /\ presenceEvents = 0
    /\ lastEvent = "none"

\* no useTypingIndicator is mounted
TypingAtRest ==
    /\ nowMs = 0
    /\ lastTypingWriteRef = 0
    /\ typingTimeoutRef = NoTimer
    /\ typing = NoTyping
    /\ typingWrites = NoWrites
    /\ lastSetTyping = NoWrite
    /\ PresenceAtRest

\* array.slice(-n)
SliceLast(array, n) ==
    IF Len(array) > n THEN SubSeq(array, Len(array) - n + 1, Len(array)) ELSE array

\* array.findIndex(m => m.id === id), 1-based; 0 for -1
FindIndex(array, id) ==
    LET S == {i \in 1..Len(array) : array[i].id = id}
    IN  IF S = {} THEN 0 ELSE CHOOSE i \in S : \A j \in S : i <= j

\* keys of the children a limitToLast(n) query of a room holds
LimitToLast(roomId, n) ==
    {i \in 1..Len(log[roomId]) : i > Len(log[roomId]) - n}

\* the senders' variables and the counters before any send
SendAtRest ==
    /\ unread = [m \in MemberIds |-> [r \in Rooms |-> 0]]
    /\ chatMeta = [r \in Rooms |-> NoMeta]
    /\ chatMembers = [m \in Senders |-> <<>>]
    /\ sendPc = [m \in Senders |-> "idle"]
    /\ sendResult = [m \in Senders |-> "none"]
    /\ msgData = [m \in Senders |-> NoMsg]
    /\ metaWrites = {}
    /\ recipientIds = [m \in Senders |-> <<>>]
    /\ chunkAt = [m \in Senders |-> 0]
    /\ txn = [m \in Senders |-> <<>>]
    /\ issued = [m \in MemberIds |-> [r \in Rooms |-> 0]]
    /\ voided = [m \in MemberIds |-> [r \in Rooms |-> FALSE]]
    /\ applied = [m \in Senders |-> [k \in MemberIds |-> 0]]
    /\ fanout = [m \in Senders |-> "none"]

\* the chat variables before any chat hook is mounted
ChatAtRest ==
    /\ log = [r \in Rooms |-> <<>>]
    /\ viewRoom = GroupRoom
    /\ cancelled = FALSE
    /\ localMessages = <<>>
    /\ initialLoadDone = FALSE
    /\ windowGet = [st |-> "none", snapshot |-> <<>>]
    /\ events = <<>>
    /\ SendAtRest
    /\ ReactAtRest

\* the due generator's variables when no generator is mounted
FeeAtRest ==
    /\ dues = EmptyBag
    /\ activities = {}
    /\ now = parseISO(<<2024, 1, 30>>)
    /\ membersView = [c \in Clients |-> <<>>]
    /\ pendingTrigger = [c \in Clients |-> FALSE]
    /\ processingRef = [c \in Clients |-> FALSE]
    /\ pc = [c \in Clients |-> "idle"]
    /\ passMembers = [c \in Clients |-> <<>>]
    /\ today = [c \in Clients |-> 0]
    /\ idx = [c \in Clients |-> 0]
    /\ freshMemberDues = [c \in Clients |-> EmptyBag]
    /\ latestPeriodEnd = [c \in Clients |-> 0]
    /\ chain = [c \in Clients |-> <<>>]
    /\ quiet = "disturbed"

-----------------------------------------------------------------------------
(* The due generator: useAutoDueGeneration / checkAndCreateDues *)

FeeInit ==
    /\ members \in MemberLists
    /\ dues = EmptyBag
    /\ activities = {}
    /\ now = parseISO(<<2024, 1, 30>>)
    /\ membersView = [c \in Clients |-> <<>>]
    /\ pendingTrigger = [c \in Clients |-> TRUE]
    /\ processingRef = [c \in Clients |-> FALSE]
    /\ pc = [c \in Clients |-> "idle"]
    /\ passMembers = [c \in Clients |-> <<>>]
    /\ today = [c \in Clients |-> 0]
    /\ idx = [c \in Clients |-> 0]
    /\ freshMemberDues = [c \in Clients |-> EmptyBag]
    /\ latestPeriodEnd = [c \in Clients |-> 0]
    /\ chain = [c \in Clients |-> <<>>]
    /\ quiet = "disturbed"
    /\ ChatAtRest
    /\ TypingAtRest

OthersIdle(c) == \A k \in Clients \ {c} : pc[k] = "idle"

\* the for-loop moves past member i of client c's pass (i = 0: the pass
\* starts): to the next active member, or out of the try block, whose finally
\* clears processingRef
AdvanceFrom(c, ms, i) ==
    LET j == NextActive(ms, i)
        started == IF i = 0 /\ OthersIdle(c) /\ quiet = "disturbed"
                      THEN "clean" ELSE quiet
    IN
    IF j # 0
        THEN /\ pc' = [pc EXCEPT ![c] = "fetch"]
             /\ idx' = [idx EXCEPT ![c] = j]
             /\ processingRef' = [processingRef EXCEPT ![c] = TRUE]
             /\ passMembers' = [passMembers EXCEPT ![c] = ms]
             /\ today' = [today EXCEPT ![c] = IF i = 0 THEN now ELSE @]
             /\ quiet' = started
        ELSE /\ pc' = [pc EXCEPT ![c] = "idle"]
             /\ idx' = [idx EXCEPT ![c] = 0]
             /\ processingRef' = [processingRef EXCEPT ![c] = FALSE]
             /\ passMembers' = [passMembers EXCEPT ![c] = <<>>]
             /\ today' = [today EXCEPT ![c] = 0]
             /\ quiet' = IF ~OthersIdle(c) \/ started = "disturbed"
                            THEN "disturbed"
                            ELSE IF started = "clean" THEN "once" ELSE "twice"

\* Firestore delivers the members snapshot to useMembers; the new `members`
\* re-runs the effect
MembersSnapshot(c) ==
    /\ membersView[c] # members
    /\ membersView' = [membersView EXCEPT ![c] = members]
    /\ pendingTrigger' = [pendingTrigger EXCEPT ![c] = TRUE]
    /\ UNCHANGED <<feeStore, processingRef, pc, passMembers, today, idx,
                   freshMemberDues, latestPeriodEnd, feeHist>>
    /\ UNCHANGED <<chatVars, typingVars>>

\* faulty variant: the effect does not look at the flag
NeverBusy(flag) == FALSE

\* if (processingRef.current) return
Busy(flag) == flag

\* the effect body runs for a change of [members, dues]; checkAndCreateDues
\* runs up to its first await
Effect(c) ==
    /\ pendingTrigger[c]
    /\ pendingTrigger' = [pendingTrigger EXCEPT ![c] = FALSE]
    /\ IF Len(membersView[c]) = 0 \/ Busy(processingRef[c])
          THEN UNCHANGED <<processingRef, pc, passMembers, today, idx, quiet>>
          ELSE AdvanceFrom(c, membersView[c], 0)
    /\ UNCHANGED <<feeStore, membersView, freshMemberDues, latestPeriodEnd, chain>>
    /\ UNCHANGED <<chatVars, typingVars>>

\* getDocs resolves for the current member; the code runs on to the while loop
Fetch(c) ==
    /\ pc[c] = "fetch"
    /\ LET member == passMembers[c][idx[c]]
           fresh  == FreshMemberDues(member.id)
           joinDate == JoinDate(member)
           daysSinceJoin == differenceInDays(today[c], joinDate)
       IN  IF daysSinceJoin < 30
              THEN /\ AdvanceFrom(c, passMembers[c], idx[c])
                   /\ UNCHANGED <<freshMemberDues, latestPeriodEnd>>
              ELSE /\ freshMemberDues' = [freshMemberDues EXCEPT ![c] = fresh]
                   /\ latestPeriodEnd' = [latestPeriodEnd EXCEPT ![c] =
                           LatestPeriodEnd(fresh, joinDate)]
                   /\ pc' = [pc EXCEPT ![c] = "loop"]
                   /\ UNCHANGED <<idx, processingRef, passMembers, today, quiet>>
    /\ UNCHANGED <<feeStore, membersView, pendingTrigger, chain>>
    /\ UNCHANGED <<chatVars, typingVars>>

\* the loop body runs and addDoc stores the new FeeRecord
CreateDue(c) ==
    /\ pc[c] = "loop"
    /\ PeriodDue(today[c], latestPeriodEnd[c])
    /\ ~Overlapping(freshMemberDues[c], latestPeriodEnd[c])
    /\ BagCardinality(dues) < MaxDues
    /\ LET member == passMembers[c][idx[c]]
           newDue == NewDue(member, latestPeriodEnd[c])
       IN  /\ dues' = dues (+) SetToBag({newDue})
           /\ freshMemberDues' = [freshMemberDues EXCEPT ![c] = @ (+) SetToBag({newDue})]
           /\ latestPeriodEnd' = [latestPeriodEnd EXCEPT ![c] =
                   parseISO(NewPeriodEnd(latestPeriodEnd[c]))]
           /\ chain' = [chain EXCEPT ![c] = Append(@, newDue)]
    /\ pendingTrigger' = [k \in Clients |-> TRUE]
    /\ quiet' = IF OthersIdle(c) THEN quiet ELSE "disturbed"
    /\ UNCHANGED <<members, activities, now, membersView, processingRef, pc,
                   passMembers, today, idx>>
    /\ UNCHANGED <<chatVars, typingVars>>

\* addDoc rejects: the exception leaves the for-loop, finally clears the flag
CreateDueFails(c) ==
    /\ pc[c] = "loop"
    /\ PeriodDue(today[c], latestPeriodEnd[c])
    /\ ~Overlapping(freshMemberDues[c], latestPeriodEnd[c])
    /\ pc' = [pc EXCEPT ![c] = "idle"]
    /\ processingRef' = [processingRef EXCEPT ![c] = FALSE]
    /\ idx' = [idx EXCEPT ![c] = 0]
    /\ passMembers' = [passMembers EXCEPT ![c] = <<>>]
    /\ today' = [today EXCEPT ![c] = 0]
    /\ freshMemberDues' = [freshMemberDues EXCEPT ![c] = EmptyBag]
    /\ latestPeriodEnd' = [latestPeriodEnd EXCEPT ![c] = 0]
    /\ chain' = [chain EXCEPT ![c] = <<>>]
    /\ quiet' = "disturbed"
    /\ UNCHANGED <<feeStore, membersView, pendingTrigger>>
    /\ UNCHANGED <<chatVars, typingVars>>

\* the while loop ends (condition false, or the duplicate guard breaks)
EndChain(c) ==
    /\ pc[c] = "loop"
    /\ \/ ~PeriodDue(today[c], latestPeriodEnd[c])
       \/ Overlapping(freshMemberDues[c], latestPeriodEnd[c])
    /\ freshMemberDues' = [freshMemberDues EXCEPT ![c] = EmptyBag]
    /\ latestPeriodEnd' = [latestPeriodEnd EXCEPT ![c] = 0]
    /\ chain' = [chain EXCEPT ![c] = <<>>]
    /\ AdvanceFrom(c, passMembers[c], idx[c])
    /\ UNCHANGED <<feeStore, membersView, pendingTrigger>>
    /\ UNCHANGED <<chatVars, typingVars>>

\* useDues.recordPayment: the paid FeeRecord, then the activity entry
RecordPayment(m, period) ==
    /\ members[m].status = "active"
    /\ BagCardinality(dues) < MaxDues
    /\ Cardinality({d \in BagToSet(dues) : d.status = "paid"}) < MaxPayments
    /\ dues' = dues (+) SetToBag({PaidDue(members[m], period)})
    /\ activities' = activities \cup {<<"payment", members[m].id>>}
    /\ pendingTrigger' = [k \in Clients |-> TRUE]
    /\ quiet' = "disturbed"
    /\ UNCHANGED <<members, now, membersView, processingRef, pc, passMembers,
                   today, idx, freshMemberDues, latestPeriodEnd, chain>>
    /\ UNCHANGED <<chatVars, typingVars>>

\* useDues.deletePayment, for the id of document d
DeletePayment(d) ==
    /\ BagIn(d, dues)
    /\ dues' = dues (-) SetToBag({d})
    /\ pendingTrigger' = [k \in Clients |-> TRUE]
    /\ quiet' = "disturbed"
    /\ UNCHANGED <<members, activities, now, membersView, processingRef,
                   pc, passMembers, today, idx, freshMemberDues, latestPeriodEnd,
                   chain>>
    /\ UNCHANGED <<chatVars, typingVars>>

\* the page is reloaded: a fresh hook instance, whose members snapshot has
\* arrived, replaces the idle one
Remount(c) ==
    /\ pc[c] = "idle"
    /\ membersView[c] # <<>>
    /\ ~pendingTrigger[c]
    /\ pendingTrigger' = [pendingTrigger EXCEPT ![c] = TRUE]
    /\ UNCHANGED <<feeStore, membersView, processingRef, pc, passMembers, today,
                   idx, freshMemberDues, latestPeriodEnd, feeHist>>
    /\ UNCHANGED <<chatVars, typingVars>>

\* days pass (a pass lasts seconds: the date changes between passes)
Tick(d) ==
    /\ d > now
    /\ \A c \in Clients : pc[c] = "idle"
    /\ now' = d
    /\ quiet' = "disturbed"
    /\ UNCHANGED <<members, dues, activities, feeHook, chain>>
    /\ UNCHANGED <<chatVars, typingVars>>

\* several instances of the generator run against the same collections
FeeNext ==
    \/ \E c \in Clients : MembersSnapshot(c)
    \/ \E c \in Clients : Effect(c)
    \/ \E c \in Clients : Fetch(c)
    \/ \E c \in Clients : CreateDue(c)
    \/ \E c \in Clients : CreateDueFails(c)
    \/ \E c \in Clients : EndChain(c)
    \/ \E c \in Clients : Remount(c)
    \/ \E d \in ClockDays : Tick(d)

\* one instance of the generator, and an admin who records and deletes payments
FeeAdminNext ==
    \/ MembersSnapshot(1)
    \/ Effect(1)
    \/ Fetch(1)
    \/ CreateDue(1)
    \/ CreateDueFails(1)
    \/ EndChain(1)
    \/ Remount(1)
    \/ \E m \in 1..Len(members), period \in PayPeriods : RecordPayment(m, period)
    \/ \E d \in BagToSet(dues) : DeletePayment(d)
    \/ \E d \in ClockDays : Tick(d)

Init == FeeInit

Spec == Init /\ [][FeeNext]_vars

SpecFeeAdmin == Init /\ [][FeeAdminNext]_vars

-----------------------------------------------------------------------------
(* Properties of the due generator *)

\* the member client c's pass is at
CurrentMember(c) == passMembers[c][idx[c]]

\* days from the anchor date of the current member to the pass's `today`
DaysSinceJoin(c) == differenceInDays(today[c], JoinDate(CurrentMember(c)))

\* the current member had no dues when the pass fetched them
EmptyAtFetch(c) == BagCardinality(freshMemberDues[c]) = Len(chain[c])

\* the while loop of client c is about to end
ChainEnds(c) ==
    /\ pc[c] = "loop"
    /\ \/ ~PeriodDue(today[c], latestPeriodEnd[c])
       \/ Overlapping(freshMemberDues[c], latestPeriodEnd[c])

PendingCopies ==
    BagCardinality([d \in Generated |-> dues[d]])

\* C1: after any interleaving of reconciliation passes, no two FeeRecords of
\* one member share a periodStart or a periodEnd.
C1_NoDuplicatePeriod ==
    \A d \in BagToSet(dues) :
        /\ CopiesIn(d, dues) = 1
        /\ \A e \in BagToSet(dues) :
              (e # d /\ e.memberId = d.memberId) =>
                  (e.periodStart # d.periodStart /\ e.periodEnd # d.periodEnd)

\* C2: once a pass has completed with nothing else changing the dues or the
\* date, a further pass on the same date creates no FeeRecord.
C2_SecondPassCreatesNothing ==
    [][(quiet \in {"once", "twice"}) => (PendingCopies' <= PendingCopies)]_vars

\* C2 witness: a second pass has completed right after a first one that left
\* generated FeeRecords.
C2_Witness == quiet = "twice" /\ Generated # {}

C4_CreatesOnePerElapsedPeriod ==
    \A c \in Clients :
        /\ pc[c] = "loop" => DaysSinceJoin(c) >= 30
        /\ (ChainEnds(c) /\ EmptyAtFetch(c)) => Len(chain[c]) = DaysSinceJoin(c) \div 30
        /\ (ChainEnds(c) /\ EmptyAtFetch(c) /\ DaysSinceJoin(c) = 30) => Len(chain[c]) = 1
        /\ (ChainEnds(c) /\ EmptyAtFetch(c) /\ DaysSinceJoin(c) = 74) => Len(chain[c]) = 2

\* C4 witness: a pass is done with a member that had no dues and joined 74
\* days before, and has created two FeeRecords.
C4_Witness ==
    \E c \in Clients :
        ChainEnds(c) /\ EmptyAtFetch(c) /\ DaysSinceJoin(c) = 74 /\ Len(chain[c]) = 2

\* C5: for a member with no dues, the first generated FeeRecord runs from the
\* join date to join date + 29 days, and the second from the day after the
\* first ends for 30 days.
C5_FirstPeriodStartsAtJoinDate ==
    \A c \in Clients :
        (pc[c] = "loop" /\ EmptyAtFetch(c)) =>
            /\ Len(chain[c]) >= 1 =>
                  /\ chain[c][1].periodStart = format(JoinDate(CurrentMember(c)))
                  /\ chain[c][1].periodEnd = format(addDays(JoinDate(CurrentMember(c)), 29))
            /\ Len(chain[c]) >= 2 =>
                  /\ parseISO(chain[c][2].periodStart) = parseISO(chain[c][1].periodEnd) + 1
                  /\ parseISO(chain[c][2].periodEnd) = parseISO(chain[c][2].periodStart) + 29

\* some FeeRecord of the member covers the day
Billed(member, day) ==
    \E d \in BagToSet(dues) :
        /\ d.memberId = member.id
        /\ parseISO(d.periodStart) <= day
        /\ day <= parseISO(d.periodEnd)

\* C6: after a pass has completed without error (and nothing else has changed
\* since it began), every active member has a FeeRecord for every elapsed
\* 30-day period since its anchor date: every day of those periods, whether
\* they are counted from the anchor date or from the day after it, is billed.
C6_EveryElapsedPeriodBilled ==
    quiet \in {"once", "twice"} =>
        \A m \in 1..Len(members) :
            members[m].status = "active" =>
                LET join == JoinDate(members[m])
                    n == differenceInDays(now, join) \div 30
                IN  \A day \in (join + 1)..(join + 30 * n - 1) :
                        Billed(members[m], day)

\* C7: when addDoc fails for one member, the pass goes on to the next active
\* member whose first period has elapsed.
C7_FailureDoesNotStopPass ==
    [][\A c \in Clients :
          ( /\ pc[c] = "loop"
            /\ pc'[c] # "loop"
            /\ PeriodDue(today[c], latestPeriodEnd[c])
            /\ ~Overlapping(freshMemberDues[c], latestPeriodEnd[c])
            /\ \E j \in (idx[c] + 1)..Len(passMembers[c]) :
                  /\ passMembers[c][j].status = "active"
                  /\ differenceInDays(today[c], JoinDate(passMembers[c][j])) >= 30 )
          => pc'[c] = "fetch"]_vars

-----------------------------------------------------------------------------
(* The message window of a room: the group effect of useChat and            *)
(* loadPrivateMessages.  One client is subscribed to viewRoom; the pushes   *)
(* and deletions of all clients reach the room's log, and the server sends  *)
(* the listeners' events in order.                                          *)

\* faulty variant: upsertGroup appending without the slice
upsertGroupNoSlice(prev, id, data) ==
    LET nextMsg == WithId(id, data)
        at == FindIndex(prev, id)
    IN  IF at = 0
           THEN Append(prev, nextMsg)
           ELSE [prev EXCEPT ![at] = Spread(prev[at], nextMsg)]

\* the updater upsertGroup hands to setGroupMessages
upsertGroup(prev, id, data) ==
    LET nextMsg == WithId(id, data)
        at == FindIndex(prev, id)
    IN  IF at = 0
           THEN LET next == Append(prev, nextMsg)
                IN  IF Len(next) > GROUP_MESSAGES_LIMIT
                       THEN SliceLast(next, GROUP_MESSAGES_LIMIT)
                       ELSE next
           ELSE [prev EXCEPT ![at] = Spread(prev[at], nextMsg)]

\* the updater upsertPrivate hands to setPrivateMessages, for prev[roomId]
upsertPrivate(room, id, data) ==
    LET nextMsg == WithId(id, data)
        at == FindIndex(room, id)
    IN  IF at = 0
           THEN LET appended == Append(room, nextMsg)
                IN  IF Len(appended) > PRIVATE_MESSAGES_LIMIT
                       THEN SliceLast(appended, PRIVATE_MESSAGES_LIMIT)
                       ELSE appended
           ELSE [room EXCEPT ![at] = Spread(room[at], nextMsg)]

\* the list after the subscription's upsert of (id, data)
Upserted(id, data) ==
    IF viewRoom = GroupRoom
        THEN upsertGroup(localMessages, id, data)
        ELSE upsertPrivate(localMessages, id, data)

\* snapshot.forEach(child => messages.push({ id, ...child.val() })) over the
\* window query
Snapshot(roomId) ==
    LET keys  == LimitToLast(roomId, Limit(roomId))
        first == Len(log[roomId]) - Cardinality(keys) + 1
    IN  [k \in 1..Cardinality(keys) |->
            WithId(first + k - 1, log[roomId][first + k - 1])]

\* lengths of a room's log when the client subscribes: a new room, and a
\* room one message short of its window
LogBases(roomId) == {0, Limit(roomId) - 1}

\* messages whose deletion is tried: the last one, the first of the window,
\* the one just before the window
DeleteTargets(roomId) ==
    LET n == Len(log[roomId])
    IN  {n, n - Limit(roomId) + 1, n - Limit(roomId)} \cap (1..n)

WindowInit ==
    /\ members = ChatMemberList
    /\ FeeAtRest
    /\ viewRoom \in Rooms
    /\ \E n \in LogBases(viewRoom) :
          /\ log = [r \in Rooms |->
                       IF r = viewRoom
                          THEN [i \in 1..n |-> MsgData(MemberA.id, <<"h", "i">>, r)]
                          ELSE <<>>]
          \* onChildAdded(limitToLast(1)) first reports the last child
          /\ events = IF n = 0 THEN <<>>
                       ELSE <<[kind |-> "added", key |-> n,
                               val |-> MsgData(MemberA.id, <<"h", "i">>, viewRoom)]>>
    /\ cancelled = FALSE
    /\ localMessages = <<>>
    /\ initialLoadDone = FALSE
    /\ windowGet = [st |-> "sent", snapshot |-> <<>>]
    /\ SendAtRest
    /\ ReactAtRest
    /\ TypingAtRest

\* the events queue after the database has an event for the subscription, if
\* there is one
Notify(event) ==
    IF windowGet.st = "none" \/ cancelled
        THEN events
        ELSE Append(events, event)

\* push(roomRef, msgData) of some client's send lands in the room
RemotePush(senderId) ==
    /\ \E b \in LogBases(viewRoom) :
          b <= Len(log[viewRoom]) /\ Len(log[viewRoom]) < b + MaxPushes
    /\ LET data == MsgData(senderId, <<"h", "i">>, viewRoom)
       IN  /\ log' = [log EXCEPT ![viewRoom] = Append(@, data)]
           /\ events' = Notify([kind |-> "added",
                                key |-> Len(log[viewRoom]) + 1, val |-> data])
    /\ UNCHANGED <<unread, chatMeta, viewRoom, cancelled, localMessages,
                   initialLoadDone, windowGet, chatSend, chatHist, chatReact,
                   typingVars, feeVars>>

\* deleteMessage(messageId, roomPath) of some client: update(msgRef, ...)
DeleteMessage(messageId) ==
    /\ messageId \in DeleteTargets(viewRoom)
    /\ log[viewRoom][messageId].type # "deleted"
    /\ Cardinality({i \in 1..Len(log[viewRoom]) :
                       log[viewRoom][i].type = "deleted"}) < MaxDeletes
    /\ LET data == Deleted(log[viewRoom][messageId])
       IN  /\ log' = [log EXCEPT ![viewRoom][messageId] = data]
           \* onChildChanged(windowQuery) reports a changed child of the window
           /\ events' = IF messageId \in LimitToLast(viewRoom, Limit(viewRoom))
                            THEN Notify([kind |-> "changed",
                                         key |-> messageId, val |-> data])
                            ELSE events
    \* the reactions are gone: the toggles before count no more
    /\ parity' = [i \in DOMAIN parity |->
                     IF i = messageId
                        THEN [e \in Emojis |-> [m \in Reactors |-> FALSE]]
                        ELSE parity[i]]
    /\ lastToggle' = IF lastToggle.messageId = messageId
                         THEN NoToggle ELSE lastToggle
    /\ UNCHANGED <<unread, chatMeta, viewRoom, cancelled, localMessages,
                   initialLoadDone, windowGet, chatSend, chatHist, react,
                   typingVars, feeVars>>

\* the server answers get(windowQuery)
GetServer ==
    /\ windowGet.st = "sent"
    /\ windowGet' = [st |-> "replied", snapshot |-> Snapshot(viewRoom)]
    /\ UNCHANGED <<chatStore, viewRoom, cancelled, localMessages,
                   initialLoadDone, events, chatSend, chatHist, chatReact,
                   typingVars, feeVars>>

\* faulty variant: the callbacks do not look at the flag
NeverDiscards(flag) == FALSE

\* if (cancelled) return, the first line of the three callbacks
Discards(flag) == flag

\* faulty variant: no gate on child-added
NeverSkips(done) == FALSE

\* if (!initialLoadDone) return, of the child-added callback
Skips(done) == ~done

\* get(windowQuery).then(...): the baseline replaces the list
GetResolve ==
    /\ windowGet.st = "replied"
    /\ IF Discards(cancelled)
          THEN UNCHANGED <<localMessages, initialLoadDone>>
          ELSE /\ localMessages' = windowGet.snapshot
               /\ initialLoadDone' = TRUE
    /\ windowGet' = [st |-> "done", snapshot |-> <<>>]
    /\ UNCHANGED <<chatStore, viewRoom, cancelled, events, chatSend, chatHist,
                   chatReact, typingVars, feeVars>>

\* the onChildAdded callback
ChildAdded ==
    /\ events # <<>>
    /\ Head(events).kind = "added"
    /\ events' = Tail(events)
    /\ localMessages' = IF Discards(cancelled) \/ Skips(initialLoadDone)
                            THEN localMessages
                            ELSE Upserted(Head(events).key, Head(events).val)
    /\ UNCHANGED <<chatStore, viewRoom, cancelled, initialLoadDone, windowGet,
                   chatSend, chatHist, chatReact, typingVars, feeVars>>

\* the onChildChanged callback
ChildChanged ==
    /\ events # <<>>
    /\ Head(events).kind = "changed"
    /\ events' = Tail(events)
    /\ localMessages' = IF Discards(cancelled)
                            THEN localMessages
                            ELSE Upserted(Head(events).key, Head(events).val)
    /\ UNCHANGED <<chatStore, viewRoom, cancelled, initialLoadDone, windowGet,
                   chatSend, chatHist, chatReact, typingVars, feeVars>>

\* the cleanup of the group effect, or the unsubscribe loadPrivateMessages
\* returned: the flag is set and the listeners are removed
Teardown ==
    /\ ~cancelled
    /\ cancelled' = TRUE
    /\ UNCHANGED <<chatStore, viewRoom, localMessages, initialLoadDone,
                   windowGet, events, chatSend, chatHist,
                   chatReact, typingVars, feeVars>>

\* The room is followed while the client is subscribed: once the listeners
\* are removed nothing new of it reaches the client.
WindowNext ==
    \/ ~cancelled /\ \E senderId \in {MemberB("active").id} : RemotePush(senderId)
    \/ ~cancelled /\ \E messageId \in DeleteTargets(viewRoom) :
                         DeleteMessage(messageId)
    \/ GetServer
    \/ GetResolve
    \/ ChildAdded
    \/ ChildChanged
    \/ Teardown

SpecWindow == WindowInit /\ [][WindowNext]_vars

-----------------------------------------------------------------------------
(* Properties of the message window *)

\* C8: whatever is appended to a room (more than its window W: 1200 for the
\* group room, 600 for a private room), the locally held message list of the
\* room never has more than W entries.
C8_WindowBound ==
    /\ Len(localMessages) <= Limit(viewRoom)
    /\ viewRoom = GroupRoom => Len(localMessages) <= 1200
    /\ viewRoom # GroupRoom => Len(localMessages) <= 600

\* C8 witness: the room holds more messages than its window, every event has
\* been delivered after the baseline load, and the list is full.
C8_Witness ==
    /\ Len(log[viewRoom]) > Limit(viewRoom) + 1
    /\ windowGet.st = "done"
    /\ events = <<>>
    /\ Len(localMessages) = Limit(viewRoom)
    /\ localMessages[Len(localMessages)].id = Len(log[viewRoom])

-----------------------------------------------------------------------------
(* Sending: sendGroupMessage, sendPrivateMessage, incrementUnread and       *)
(* markRoomRead.  Every sender runs one send at a time: the next one starts *)
(* when the fan-out of the last has settled.                                *)

\* members.filter(m => m.id !== currentMemberId).map(m => m.id)
OtherIds(ms, currentMemberId) ==
    LET others == SelectSeq(ms, LAMBDA m : m.id # currentMemberId)
    IN  [i \in 1..Len(others) |-> others[i].id]

\* recipientIds.filter(rid => rid !== currentMemberId)
Targets(ids, currentMemberId) ==
    SelectSeq(ids, LAMBDA rid : rid # currentMemberId)

\* the positions of targets.slice(i, i + UNREAD_CHUNK_SIZE)
Chunk(targets, i) ==
    {k \in 1..Len(targets) : i < k /\ k <= i + UNREAD_CHUNK_SIZE}

\* lastMessage of the chat-meta write
LastMessage(type, content) ==
    IF type = "gif" THEN <<"GIF">> ELSE Slice0(Trim(content), 50)

\* sends that have reached push
SendsStarted ==
    LET Sum[S \in SUBSET Rooms] ==
            IF S = {} THEN 0
            ELSE LET r == CHOOSE x \in S : TRUE
                 IN  Len(log[r]) + Sum[S \ {r}]
    IN  Sum[Rooms] + Cardinality({m \in Senders : sendPc[m] = "push"})

\* faulty variant: the server applies a transaction's result whatever it replaced
AcceptsBlindly(serverValue, cur) == TRUE

\* runTransaction: the server applies the result only when the value the
\* update function ran on is still the stored one
Accepts(serverValue, cur) == serverValue = cur

\* the update function of incrementUnread: (current || 0) + 1
Incremented(current) == current + 1

ChatInit ==
    /\ members = ChatMemberList
    /\ FeeAtRest
    /\ ChatAtRest
    /\ TypingAtRest

\* Firestore delivers the members snapshot to useChat: setMembers(memberList)
ChatMembersSnapshot(m) ==
    /\ chatMembers[m] # members
    /\ chatMembers' = [chatMembers EXCEPT ![m] = members]
    /\ UNCHANGED <<chatStore, chatView, sendPc, sendResult, msgData, metaWrites,
                   recipientIds, chunkAt, txn, chatHist,
                   chatReact, typingVars, feeVars>>

\* faulty variant: !content
IsBlankUntrimmed(content) == content = <<>>

\* !content.trim()
IsBlank(content) == Trim(content) = <<>>

\* a send runs up to `await push(...)`; otherIds is computed from the
\* `members` of the render the called function belongs to
BeginSend(m, content, roomId, ids) ==
    /\ sendPc[m] = "idle"
    /\ SendsStarted < MaxSends
    /\ IF IsBlank(content)
          THEN /\ sendResult' = [sendResult EXCEPT ![m] = "resolved"]
               /\ UNCHANGED <<sendPc, msgData, recipientIds, chunkAt, txn,
                              applied, fanout>>
          ELSE /\ sendPc' = [sendPc EXCEPT ![m] = "push"]
               /\ sendResult' = [sendResult EXCEPT ![m] = "pending"]
               /\ msgData' = [msgData EXCEPT ![m] = MsgData(m, content, roomId)]
               /\ recipientIds' = [recipientIds EXCEPT ![m] = ids]
               /\ chunkAt' = [chunkAt EXCEPT ![m] = 0]
               /\ txn' = [txn EXCEPT ![m] = <<>>]
               /\ applied' = [applied EXCEPT ![m] = [k \in MemberIds |-> 0]]
               /\ fanout' = [fanout EXCEPT ![m] = "none"]
    /\ UNCHANGED <<chatStore, chatView, chatMembers, metaWrites, issued, voided,
                   chatReact, typingVars, feeVars>>

SendGroupMessage(m, content) ==
    BeginSend(m, content, GroupRoom, OtherIds(chatMembers[m], m))

SendPrivateMessage(m, otherMemberId, content) ==
    BeginSend(m, content, getPrivateRoomId(m, otherMemberId), <<otherMemberId>>)

\* incrementUnread of sender m reaches the chunk at i: its transactions are
\* issued together; past the last target the loop ends.  old: the
\* transactions of the chunks before
StartChunk(m, roomId, targets, i, old) ==
    LET chunk == Chunk(targets, i)
    IN  /\ chunkAt' = [chunkAt EXCEPT ![m] = i]
        /\ IF chunk = {}
              THEN /\ sendPc' = [sendPc EXCEPT ![m] = "idle"]
                   /\ fanout' = [fanout EXCEPT ![m] = "completed"]
                   /\ txn' = [txn EXCEPT ![m] = old]
                   /\ issued' = issued
              ELSE /\ sendPc' = [sendPc EXCEPT ![m] = "fanout"]
                   /\ fanout' = [fanout EXCEPT ![m] = "running"]
                   /\ txn' = [txn EXCEPT ![m] =
                          [k \in 1..Len(targets) |->
                              IF k \in chunk THEN [st |-> "sent", cur |-> 0]
                              ELSE IF k <= i THEN old[k]
                              ELSE [st |-> "queued", cur |-> 0]]]
                   /\ issued' = [rid \in MemberIds |-> [r \in Rooms |->
                          issued[rid][r] +
                          IF r = roomId
                             THEN Cardinality({k \in chunk : targets[k] = rid})
                             ELSE 0]]

\* push resolves: the message is in the log; the chat-meta write and the
\* unread fan-out start in the background
PushDone(m) ==
    /\ sendPc[m] = "push"
    /\ LET roomId == msgData[m].roomId
       IN  /\ log' = [log EXCEPT ![roomId] = Append(@, msgData[m])]
           /\ events' = IF windowGet.st # "none" /\ viewRoom = roomId
                            THEN Append(events, [kind |-> "added",
                                                 key |-> Len(log[roomId]) + 1,
                                                 val |-> msgData[m]])
                            ELSE events
           /\ metaWrites' = metaWrites \cup
                  {[roomId |-> roomId,
                    meta |-> [lastMessage |-> LastMessage(msgData[m].type,
                                                          msgData[m].content),
                              lastSenderId |-> m]]}
           /\ StartChunk(m, roomId, Targets(recipientIds[m], m), 0, <<>>)
    /\ sendResult' = [sendResult EXCEPT ![m] = "resolved"]
    /\ UNCHANGED <<unread, chatMeta, viewRoom, cancelled, localMessages,
                   initialLoadDone, windowGet, chatMembers, msgData,
                   recipientIds, voided, applied, chatReact, typingVars,
                   feeVars>>

\* push rejects: the send rejects, nothing else is issued
PushFails(m) ==
    /\ sendPc[m] = "push"
    /\ sendPc' = [sendPc EXCEPT ![m] = "idle"]
    /\ sendResult' = [sendResult EXCEPT ![m] = "rejected"]
    /\ UNCHANGED <<chatStore, chatView, chatMembers, msgData, metaWrites,
                   recipientIds, chunkAt, txn, chatHist,
                   chatReact, typingVars, feeVars>>

\* faulty variant: the rejection reaches the send's promise
Uncaught(result) == "rejected"

\* the send's promise after a rejection in the background: the chat-meta
\* write is in a try/catch and the fan-out has a .catch, both only log
Caught(result) == result

\* transaction k of sender m's chunk settles as st: when it is the last of
\* the chunk, Promise.all is settled and the loop moves on, or the fan-out
\* has failed
Settle(m, k, st) ==
    LET settled == [txn[m] EXCEPT ![k].st = st]
        targets == Targets(recipientIds[m], m)
    IN  IF \E j \in DOMAIN settled : settled[j].st = "sent"
           THEN /\ txn' = [txn EXCEPT ![m] = settled]
                /\ UNCHANGED <<sendPc, fanout, chunkAt, issued>>
           ELSE IF \E j \in DOMAIN settled : settled[j].st = "failed"
           THEN /\ txn' = [txn EXCEPT ![m] = settled]
                /\ sendPc' = [sendPc EXCEPT ![m] = "idle"]
                /\ fanout' = [fanout EXCEPT ![m] = "failed"]
                /\ UNCHANGED <<chunkAt, issued>>
           ELSE StartChunk(m, msgData[m].roomId, targets,
                           chunkAt[m] + UNREAD_CHUNK_SIZE, settled)

\* the server receives the result of transaction k of sender m: it applies
\* it, or answers with the stored value and the update function runs again
TxnCommit(m, k) ==
    /\ sendPc[m] = "fanout"
    /\ k \in DOMAIN txn[m]
    /\ txn[m][k].st = "sent"
    /\ LET roomId == msgData[m].roomId
           rid == Targets(recipientIds[m], m)[k]
           cur == txn[m][k].cur
       IN  IF Accepts(unread[rid][roomId], cur)
              THEN /\ unread' = [unread EXCEPT ![rid][roomId] = Incremented(cur)]
                   /\ applied' = [applied EXCEPT ![m][rid] = @ + 1]
                   /\ Settle(m, k, "done")
              ELSE /\ txn' = [txn EXCEPT ![m][k].cur = unread[rid][roomId]]
                   /\ UNCHANGED <<unread, applied, sendPc, fanout, chunkAt,
                                  issued>>
    /\ UNCHANGED <<log, chatMeta, chatView, chatMembers, sendResult, msgData,
                   metaWrites, recipientIds, voided,
                   chatReact, typingVars, feeVars>>

\* transaction k of sender m rejects
TxnFails(m, k) ==
    /\ sendPc[m] = "fanout"
    /\ k \in DOMAIN txn[m]
    /\ txn[m][k].st = "sent"
    /\ voided' = [voided EXCEPT
           ![Targets(recipientIds[m], m)[k]][msgData[m].roomId] = TRUE]
    /\ Settle(m, k, "failed")
    /\ sendResult' = [sendResult EXCEPT ![m] = Caught(@)]
    /\ UNCHANGED <<chatStore, chatView, chatMembers, msgData, metaWrites,
                   recipientIds, applied, chatReact, typingVars, feeVars>>

\* set(ref(database, 'chatMeta/<roomId>'), ...) reaches the server
MetaLands(w) ==
    /\ w \in metaWrites
    /\ chatMeta' = [chatMeta EXCEPT ![w.roomId] = w.meta]
    /\ metaWrites' = metaWrites \ {w}
    /\ UNCHANGED <<log, unread, chatView, chatMembers, sendPc, sendResult,
                   msgData,
                   recipientIds, chunkAt, txn, chatHist,
                   chatReact, typingVars, feeVars>>

\* the chat-meta write rejects: caught and logged
MetaFails(w) ==
    /\ w \in metaWrites
    /\ metaWrites' = metaWrites \ {w}
    /\ sendResult' = [sendResult EXCEPT ![w.meta.lastSenderId] = Caught(@)]
    /\ UNCHANGED <<chatStore, chatView, chatMembers, sendPc, msgData,
                   recipientIds, chunkAt, txn, chatHist,
                   chatReact, typingVars, feeVars>>

\* faulty variant: the reset takes one off the counter
AfterDecrement(current) == current - 1

\* remove(unreadRef): the node is absent
AfterRemove(current) == 0

\* faulty variant: a single unread message is not cleared
HasSeveralUnread(count) == count > 1

\* (unreadCounts[roomId] || 0) > 0
HasUnread(count) == count > 0

\* the open room's effect sees unreadCounts[roomId] > 0 and calls
\* markRoomRead(roomId): remove(unreadRef)
MarkRoomRead(m, roomId) ==
    /\ HasUnread(unread[m][roomId])
    /\ unread' = [unread EXCEPT ![m][roomId] = AfterRemove(@)]
    /\ voided' = [voided EXCEPT ![m][roomId] = TRUE]
    /\ UNCHANGED <<log, chatMeta, chatView, chatSend, issued, applied, fanout,
                   chatReact, typingVars, feeVars>>

ChatNext ==
    \/ \E m \in Senders : ChatMembersSnapshot(m)
    \/ \E m \in Senders, content \in Contents : SendGroupMessage(m, content)
    \/ \E m \in Senders, otherMemberId \in Senders, content \in Contents :
          otherMemberId # m /\ SendPrivateMessage(m, otherMemberId, content)
    \/ \E m \in Senders : PushDone(m)
    \/ \E m \in Senders : PushFails(m)
    \/ \E m \in Senders, k \in 1..Len(ChatMemberList) : TxnCommit(m, k)
    \/ \E m \in Senders, k \in 1..Len(ChatMemberList) : TxnFails(m, k)
    \/ \E w \in metaWrites : MetaLands(w)
    \/ \E w \in metaWrites : MetaFails(w)
    \/ \E m \in Readers, roomId \in Rooms : MarkRoomRead(m, roomId)

SpecChat == ChatInit /\ [][ChatNext]_vars

\* the runs in which no push, no transaction and no chat-meta write fails
MetaNext ==
    \/ \E m \in Senders : ChatMembersSnapshot(m)
    \/ \E m \in Senders, content \in Contents : SendGroupMessage(m, content)
    \/ \E m \in Senders, otherMemberId \in Senders, content \in Contents :
          otherMemberId # m /\ SendPrivateMessage(m, otherMemberId, content)
    \/ \E m \in Senders : PushDone(m)
    \/ \E m \in Senders, k \in 1..Len(ChatMemberList) : TxnCommit(m, k)
    \/ \E w \in metaWrites : MetaLands(w)
    \/ \E m \in Readers, roomId \in Rooms : MarkRoomRead(m, roomId)

SpecMeta == ChatInit /\ [][MetaNext]_vars

\* the same runs, with the reader's room kept open: its effect runs again
\* after every change of unreadCounts
SpecBadge ==
    SpecMeta /\ \A m \in Readers, roomId \in Rooms :
                    WF_vars(MarkRoomRead(m, roomId))

-----------------------------------------------------------------------------
(* Properties of the unread counters *)

\* an increment to (rid, roomId) has been issued and has not settled
InFlight(rid, roomId) ==
    \E m \in Senders :
        /\ sendPc[m] = "fanout"
        /\ msgData[m].roomId = roomId
        /\ \E k \in DOMAIN txn[m] :
              /\ Targets(recipientIds[m], m)[k] = rid
              /\ txn[m][k].st = "sent"

\* the members a message to the room is for
Participants(roomId) ==
    IF roomId = GroupRoom
        THEN {members[i].id : i \in 1..Len(members)}
        ELSE {roomId[1], roomId[3]}

\* C9: no increment is lost: once every increment issued to a counter by the
\* senders' fan-outs has settled, none of them failed and the counter was not
\* reset, the counter holds the number of increments issued to it, also when
\* several senders incremented it concurrently.
C9_NoLostIncrement ==
    \A rid \in MemberIds, roomId \in Rooms :
        (~voided[rid][roomId] /\ ~InFlight(rid, roomId)) =>
            unread[rid][roomId] = issued[rid][roomId]

\* C9 witness: two senders have incremented one counter concurrently (the
\* transaction of one was answered with the other's result and ran again),
\* both fan-outs have completed and the counter is 2.
C9_Witness ==
    \E rid \in MemberIds, roomId \in Rooms :
        /\ ~voided[rid][roomId]
        /\ issued[rid][roomId] = 2
        /\ unread[rid][roomId] = 2
        /\ \A m \in Senders :
              /\ fanout[m] = "completed"
              /\ msgData[m].roomId = roomId
        /\ \E m \in Senders : \E k \in DOMAIN txn[m] :
              /\ Targets(recipientIds[m], m)[k] = rid
              /\ txn[m][k] = [st |-> "done", cur |-> 1]

\* C10: when the fan-out of a successful send has completed, it has
\* incremented the room's counter of every other participant exactly once,
\* and not the sender's own.
C10_EveryOtherParticipantOnce ==
    \A m \in Senders :
        fanout[m] = "completed" =>
            \A k \in Participants(msgData[m].roomId) :
                applied[m][k] = IF k = m THEN 0 ELSE 1

\* C11: an unread counter is never negative, and a reset leaves it at
\* exactly 0 (absent): the only step that lowers a counter is markRoomRead,
\* and the state right after it holds 0, whatever increments are in flight.
C11_ResetLeavesZero ==
    [][\A m \in MemberIds, roomId \in Rooms :
          /\ unread'[m][roomId] >= 0
          /\ unread'[m][roomId] < unread[m][roomId] => unread'[m][roomId] = 0
          /\ MarkRoomRead(m, roomId) => unread'[m][roomId] = 0]_vars

\* C11 witness: a counter that two sends had raised to 2 has been reset, and
\* no increment to it is in flight.
C11_Witness ==
    \E m \in Readers, roomId \in Rooms :
        /\ issued[m][roomId] = 2
        /\ voided[m][roomId]
        /\ unread[m][roomId] = 0
        /\ ~InFlight(m, roomId)
        /\ \A k \in Senders : fanout[k] = "completed"


-----------------------------------------------------------------------------
(* Reactions and deletion: two members react to the two messages of the   *)
(* group room and the last one is deleted; no client's window is          *)
(* modelled and nothing is pushed meanwhile.                               *)

ReactInit ==
    /\ members = ChatMemberList
    /\ FeeAtRest
    /\ log = [r \in Rooms |->
                 IF r = GroupRoom
                    THEN <<ChatMessage(MemberA.id, MemberA.name, <<"h", "i">>,
                                       r, 1),
                           WithReplyTo(
                               ChatMessage(MemberB("active").id,
                                           MemberB("active").name,
                                           <<"h", "i">>, r, 2),
                               [id |-> 1, senderName |-> MemberA.name,
                                content |-> Slice0(<<"h", "i">>, 80)])>>
                    ELSE <<>>]
    /\ viewRoom = GroupRoom
    /\ cancelled = FALSE
    /\ localMessages = <<>>
    /\ initialLoadDone = FALSE
    /\ windowGet = [st |-> "none", snapshot |-> <<>>]
    /\ events = <<>>
    /\ SendAtRest
    /\ ReactAtRest
    /\ TypingAtRest

\* addReaction(messageId, emoji, roomPath) of member m, offered by the
\* reaction bar of a message that is not deleted: runTransaction sends the
\* update function's result on the value it has
AddReaction(m, messageId, emoji) ==
    /\ react[m].st = "idle"
    /\ messageId \in 1..Len(log[viewRoom])
    /\ log[viewRoom][messageId].type # "deleted"
    /\ react' = [react EXCEPT ![m] =
                    [st |-> "sent", messageId |-> messageId, emoji |-> emoji,
                     cur |-> ReactionList(log[viewRoom][messageId], emoji)]]
    /\ UNCHANGED <<chatStore, chatView, chatSend, chatHist, parity,
                   lastToggle, typingVars, feeVars>>

\* the server takes the transaction of member m: it stores the update
\* function's result if the list it was run on is still the stored one, and
\* has the client run it again on the stored list otherwise
ReactCommit(m) ==
    /\ react[m].st = "sent"
    /\ LET messageId == react[m].messageId
           emoji     == react[m].emoji
           data      == log[viewRoom][messageId]
           stored    == ReactionList(data, emoji)
       IN  IF Accepts(stored, react[m].cur)
              THEN LET after == WithReactionList(data, emoji,
                                                 Toggled(react[m].cur, m))
                   IN  /\ log' = [log EXCEPT ![viewRoom][messageId] = after]
                       /\ events' = Notify([kind |-> "changed",
                                            key |-> messageId, val |-> after])
                       /\ react' = [react EXCEPT ![m].st = "idle"]
                       /\ parity' = [parity EXCEPT ![messageId][emoji][m] = ~@]
                       /\ lastToggle' =
                             [by |-> m, messageId |-> messageId,
                              emoji |-> emoji, before |-> Ids(stored),
                              twice |-> /\ lastToggle.by = m
                                        /\ lastToggle.messageId = messageId
                                        /\ lastToggle.emoji = emoji]
              ELSE /\ react' = [react EXCEPT ![m].cur = stored]
                   /\ UNCHANGED <<log, events, parity, lastToggle>>
    /\ UNCHANGED <<unread, chatMeta, viewRoom, cancelled, localMessages,
                   initialLoadDone, windowGet, chatSend, chatHist, typingVars,
                   feeVars>>

ReactNext ==
    \/ \E messageId \in DeleteTargets(viewRoom) : DeleteMessage(messageId)
    \/ \E m \in Reactors, messageId \in 1..MaxPushes, emoji \in Emojis :
          AddReaction(m, messageId, emoji)
    \/ \E m \in Reactors : ReactCommit(m)

SpecReact == ReactInit /\ [][ReactNext]_vars

\* C12: a deleted message has empty content, no reactions and no replyTo
C12_DeletedIsBare ==
    \A roomId \in Rooms : \A i \in 1..Len(log[roomId]) :
        log[roomId][i].type = "deleted" =>
            /\ log[roomId][i].content = <<>>
            /\ "reactions" \notin DOMAIN log[roomId][i]
            /\ "replyTo" \notin DOMAIN log[roomId][i]


\* the fields deleteMessage does not name
KeptFields == {"senderId", "senderName", "timestamp", "roomId"}

\* C13: the step that makes a message deleted sets its content to '' and
\* removes its reactions and replyTo; the message stays under its id with its
\* timestamp, senderId, senderName and roomId, and no other message of any
\* room changes.
C13_DeleteFrame ==
    [][\A roomId \in Rooms : \A i \in 1..Len(log[roomId]) :
          (/\ log[roomId][i].type # "deleted"
           /\ i <= Len(log'[roomId])
           /\ log'[roomId][i].type = "deleted")
          => /\ log'[roomId][i].content = <<>>
             /\ "reactions" \notin DOMAIN log'[roomId][i]
             /\ "replyTo" \notin DOMAIN log'[roomId][i]
             /\ \A k \in KeptFields \cap DOMAIN log[roomId][i] :
                    /\ k \in DOMAIN log'[roomId][i]
                    /\ log'[roomId][i][k] = log[roomId][i][k]
             /\ Len(log'[roomId]) = Len(log[roomId])
             /\ \A j \in 1..Len(log[roomId]) :
                    j # i => log'[roomId][j] = log[roomId][j]
             /\ \A other \in Rooms \ {roomId} : log'[other] = log[other]]_vars

\* the reply with its four kept fields is deleted, next to a message that
\* has a reaction
C13_Witness ==
    /\ Len(log[GroupRoom]) >= 2
    /\ log[GroupRoom][2].type = "deleted"
    /\ log[GroupRoom][2].content = <<>>
    /\ KeptFields \subseteq DOMAIN log[GroupRoom][2]
    /\ "reactions" \in DOMAIN log[GroupRoom][1]
    /\ \A m \in Reactors : react[m].st = "idle"


\* C14: under any interleaving of addReaction calls on one message and
\* emoji, the list holds exactly the members whose committed toggles are odd
\* in number, each at most once; and the step that completes a call flips
\* the caller's membership and nobody else's.
C14_TogglesCount ==
    /\ [](\A i \in 1..Len(log[GroupRoom]) : \A e \in Emojis :
             LET list == ReactionList(log[GroupRoom][i], e)
             IN  /\ \A a, b \in DOMAIN list : a # b => list[a] # list[b]
                 /\ Ids(list) = {m \in Reactors : parity[i][e][m]})
    /\ [][\A m \in Reactors :
             (react[m].st = "sent" /\ react'[m].st = "idle")
             => LET i      == react[m].messageId
                    before == Ids(ReactionList(log[GroupRoom][i],
                                               react[m].emoji))
                    after  == Ids(ReactionList(log'[GroupRoom][i],
                                               react[m].emoji))
                IN  after = (before \ {m}) \cup ({m} \ before)]_vars

\* A added, B added, A removed: three toggles on message 1, B's reaction left
C14_Witness ==
    /\ ReactionList(log[GroupRoom][1], "+1") = <<MemberB("active").id>>
    /\ lastToggle = [by |-> MemberA.id, messageId |-> 1, emoji |-> "+1",
                     before |-> Reactors, twice |-> FALSE]


\* C15: a member's toggle that directly follows a toggle of the same member
\* on the same message and emoji leaves the list with the members it had
\* before the first of the two.
C15_TwiceRestores ==
    [][\A m \in Reactors :
          (/\ react[m].st = "sent" /\ react'[m].st = "idle"
           /\ lastToggle.by = m
           /\ lastToggle.messageId = react[m].messageId
           /\ lastToggle.emoji = react[m].emoji)
          => Ids(ReactionList(log'[GroupRoom][react[m].messageId],
                              react[m].emoji)) = lastToggle.before]_vars

\* B has reacted to message 1; then A has toggled it twice in a row
C15_Witness ==
    /\ lastToggle.twice
    /\ lastToggle.by = MemberA.id
    /\ lastToggle.messageId = 1
    /\ lastToggle.before = Reactors
    /\ ReactionList(log[GroupRoom][1], lastToggle.emoji)
           = <<MemberB("active").id>>


\* C16: getPrivateRoomId gives the same room id for a pair of members in
\* either order, so the private messages two members send each other go to
\* one room.
C16_RoomIdSymmetric ==
    /\ \A a, b \in MemberIds : getPrivateRoomId(a, b) = getPrivateRoomId(b, a)
    /\ \A m \in Senders : \A other \in Senders \ {m} :
          (sendPc[m] # "idle" /\ msgData[m].roomId # GroupRoom)
          => msgData[m].roomId = getPrivateRoomId(other, m)

\* A has sent B a private message and B has sent A one: both are in the
\* room of the pair
C16_Witness ==
    LET roomId == getPrivateRoomId(MemberB("active").id, MemberA.id)
    IN  /\ roomId \in Rooms
        /\ \A m \in Senders :
              \E i \in 1..Len(log[roomId]) : log[roomId][i].senderId = m


\* C17: a send rejects exactly when its append fails, and then no chat-meta
\* write is issued, no unread counter is incremented and no local list
\* changes; a failed chat-meta write or fan-out never rejects a send, and no
\* step removes or changes a message of a room.
C17_SendRejectsOnlyOnAppend ==
    [][/\ \A m \in Senders :
             /\ (sendPc[m] = "push" /\ sendPc'[m] # "push")
                => /\ sendResult'[m] \in {"resolved", "rejected"}
                   /\ sendResult'[m] = "rejected" <=> log' = log
             /\ (sendResult'[m] = "rejected" /\ sendResult[m] # "rejected")
                => /\ sendPc[m] = "push"
                   /\ UNCHANGED <<log, chatMeta, unread, metaWrites, txn,
                                  issued, localMessages, events>>
       /\ \A roomId \in Rooms :
             /\ Len(log'[roomId]) >= Len(log[roomId])
             /\ SubSeq(log'[roomId], 1, Len(log[roomId])) = log[roomId]]_vars

\* one send was rejected; another resolved, its message is in the room and
\* its fan-out failed afterwards
C17_Witness ==
    \E m, other \in Senders :
        /\ sendResult[m] = "rejected"
        /\ sendResult[other] = "resolved"
        /\ fanout[other] = "failed"
        /\ \E i \in 1..Len(log[GroupRoom]) :
              log[GroupRoom][i].senderId = other
        /\ \A i \in 1..Len(log[GroupRoom]) : log[GroupRoom][i].senderId # m

\* C18: a send whose trimmed content is empty returns at once and changes
\* neither the room, the chat meta nor any unread counter, and starts
\* nothing that would: no send in progress and no stored text message has
\* empty content.
C18_BlankSendIsNoOp ==
    /\ [](/\ \A m \in Senders :
                sendPc[m] # "idle" => msgData[m].content # <<>>
          /\ \A roomId \in Rooms : \A i \in 1..Len(log[roomId]) :
                log[roomId][i].type = "text"
                => log[roomId][i].content # <<>>)
    /\ [][\A m \in Senders :
             (/\ sendPc[m] = "idle"
              /\ sendResult'[m] = "resolved"
              /\ sendResult'[m] # sendResult[m])
             => /\ sendPc'[m] = "idle"
                /\ UNCHANGED <<log, chatMeta, unread, metaWrites, txn,
                               issued>>]_vars

\* A's only send was of blanks, after B's message had reached the room and
\* C's counter
C18_Witness ==
    /\ sendResult[MemberA.id] = "resolved"
    /\ fanout[MemberA.id] = "none"
    /\ log[GroupRoom] # <<>>
    /\ \A roomId \in Rooms : \A i \in 1..Len(log[roomId]) :
          log[roomId][i].senderId = MemberB("active").id
    /\ unread[MemberC.id][GroupRoom] = 1


\* C19: once the subscription is torn down, no step changes the local
\* messages of its room or its initial-load flag: a window read resolving
\* later and an added or changed event delivered later are discarded.
C19_NothingAfterTeardown ==
    [][cancelled => /\ localMessages' = localMessages
                    /\ initialLoadDone' = initialLoadDone]_vars

\* the subscription was torn down before its window read resolved; the read
\* has resolved since and the events of a room that has messages have been
\* delivered
C19_Witness ==
    /\ cancelled
    /\ windowGet.st = "done"
    /\ ~initialLoadDone
    /\ localMessages = <<>>
    /\ log[viewRoom] # <<>>
    /\ events = <<>>


-----------------------------------------------------------------------------
(* The typing indicator of one member.  Date.now() moves in steps of a     *)
(* third of the throttle, or by the self-clear delay at once; a timer      *)
(* fires at its time or later.                                             *)

\* the step of the clock
TickMs == TYPING_THROTTLE_MS \div 3

\* Date.now() when the hook is mounted
MountTime == 2 * SELF_CLEAR_MS

Min(a, b) == IF a <= b THEN a ELSE b

\* the shortest time between two writes in a row, after one more at time t
\* that follows one at time last; times of TYPING_THROTTLE_MS and more count
\* alike
GapAfter(gap, last, t) ==
    IF last = NoWrite THEN gap
    ELSE IF gap = NoWrite THEN Min(t - last, TYPING_THROTTLE_MS)
    ELSE Min(gap, t - last)

\* typingWrites after set(presenceRef, ...) by setTyping (bySet) or by
\* clearTyping or the timer
Written(bySet) ==
    [at     |-> nowMs,
     gap    |-> GapAfter(typingWrites.gap, typingWrites.at, nowMs),
     setAt  |-> IF bySet THEN nowMs ELSE typingWrites.setAt,
     setGap |-> IF bySet
                   THEN GapAfter(typingWrites.setGap, typingWrites.setAt, nowMs)
                   ELSE typingWrites.setGap]

\* faulty variant: every call writes
Unthrottled(t, last) == TRUE

\* faulty variant: a running timer is left to run
TimerKept(timer, t) == IF timer # NoTimer THEN timer ELSE t + SELF_CLEAR_MS

\* clearTimeout(typingTimeoutRef.current); setTimeout(..., 3000): when the
\* new timer is due
TimerRestarted(timer, t) == t + SELF_CLEAR_MS

\* now - lastTypingWriteRef.current >= TYPING_THROTTLE_MS
Throttle(t, last) == t - last >= TYPING_THROTTLE_MS

TypingInit ==
    /\ members = ChatMemberList
    /\ FeeAtRest
    /\ ChatAtRest
    /\ nowMs = MountTime
    /\ lastTypingWriteRef = 0
    /\ typingTimeoutRef = NoTimer
    /\ typing = NoTyping
    /\ typingWrites = NoWrites
    /\ lastSetTyping = NoWrite
    /\ PresenceAtRest

\* setTyping(roomId)
SetTyping(roomId) ==
    /\ IF Throttle(nowMs, lastTypingWriteRef)
          THEN /\ lastTypingWriteRef' = nowMs
               /\ typing' = roomId
               /\ typingWrites' = Written(TRUE)
          ELSE UNCHANGED <<lastTypingWriteRef, typing, typingWrites>>
    /\ typingTimeoutRef' = TimerRestarted(typingTimeoutRef, nowMs)
    /\ lastSetTyping' = nowMs
    /\ UNCHANGED <<nowMs, presenceVars, chatVars, feeVars>>

\* clearTyping()
ClearTyping ==
    /\ typing' = NoTyping
    /\ typingWrites' = Written(FALSE)
    /\ typingTimeoutRef' = NoTimer
    /\ lastSetTyping' = NoWrite
    /\ UNCHANGED <<nowMs, lastTypingWriteRef, presenceVars, chatVars,
                   feeVars>>

\* the callback of setTimeout(..., 3000)
TimerFires ==
    /\ typingTimeoutRef # NoTimer
    /\ nowMs >= typingTimeoutRef
    /\ typing' = NoTyping
    /\ typingWrites' = Written(FALSE)
    /\ typingTimeoutRef' = NoTimer
    /\ UNCHANGED <<nowMs, lastTypingWriteRef, lastSetTyping, presenceVars,
                   chatVars, feeVars>>

\* time passes: a step, or a long wait
TypingTick ==
    /\ \/ /\ (nowMs - MountTime) % SELF_CLEAR_MS < MaxTicks * TickMs
          /\ nowMs' = nowMs + TickMs
       \/ /\ nowMs - MountTime < MaxWaits * SELF_CLEAR_MS
          /\ nowMs' = nowMs + SELF_CLEAR_MS
    /\ UNCHANGED <<lastTypingWriteRef, typingTimeoutRef, typing, typingWrites,
                   lastSetTyping, presenceVars, chatVars, feeVars>>

TypingNext ==
    \/ \E roomId \in Rooms : SetTyping(roomId)
    \/ ClearTyping
    \/ TimerFires
    \/ TypingTick

SpecTyping == TypingInit /\ [][TypingNext]_vars

\* C20: two writes of the hook to the typing field, by setTyping, clearTyping
\* or the timer, are never less than 450 ms apart
C20_AnyWriteThrottled ==
    typingWrites.gap = NoWrite \/ typingWrites.gap >= TYPING_THROTTLE_MS

\* C20, amended: two writes of setTyping to the typing field are never less
\* than 450 ms apart, however often it is called and whatever clearTyping
\* and the timer do in between (these two write null each time, unthrottled)
C20_SetTypingThrottled ==
    typingWrites.setGap = NoWrite \/ typingWrites.setGap >= TYPING_THROTTLE_MS

\* setTyping has written twice, 450 ms apart, with a null write of
\* clearTyping or the timer closer than that to another write
C20_Witness ==
    /\ typingWrites.setGap = TYPING_THROTTLE_MS
    /\ typingWrites.gap # NoWrite
    /\ typingWrites.gap < TYPING_THROTTLE_MS
    /\ typing # NoTyping
    /\ typingTimeoutRef # NoTimer

\* a pending timer is due 3 seconds after the last setTyping call, and none
\* is pending once clearTyping was called; without a pending timer the
\* typing field is null
TimerFollowsLastCall ==
    /\ typingTimeoutRef # NoTimer =>
           /\ lastSetTyping # NoWrite
           /\ typingTimeoutRef = lastSetTyping + SELF_CLEAR_MS
    /\ typingTimeoutRef = NoTimer => typing = NoTyping

\* the self-clear write comes 3 seconds or more after the last setTyping
\* call, never after a clearTyping that no setTyping followed, and it
\* writes null
SelfClearIsDue ==
    TimerFires =>
        /\ lastSetTyping # NoWrite
        /\ nowMs >= lastSetTyping + SELF_CLEAR_MS
        /\ typing' = NoTyping

\* C26: every setTyping call, throttled or not, restarts the 3-second timer,
\* so the self-clear write of null comes 3 seconds after the last setTyping
\* call; clearTyping writes null at once and cancels the timer, so no
\* self-clear write follows it unless setTyping is called again
C26_TimerRestartsAndCancels ==
    []TimerFollowsLastCall /\ [][SelfClearIsDue]_vars

\* a setTyping call within the throttle of the one before restarted the
\* timer, and the timer then fired with the typing field set, 3 seconds
\* after that call
C26_Witness ==
    /\ typingWrites.setAt # NoWrite
    /\ lastSetTyping # NoWrite
    /\ lastSetTyping > typingWrites.setAt
    /\ lastSetTyping - typingWrites.setAt < TYPING_THROTTLE_MS
    /\ typingTimeoutRef = NoTimer
    /\ typingWrites.at >= lastSetTyping + SELF_CLEAR_MS


-----------------------------------------------------------------------------
(* Receipts: any client records a payment or marks a pending due paid; the *)
(* clients' Date.now() is the one clock nowMs.                             *)

\* `RCP-${Date.now()}`
ReceiptNumber(t) == <<"RCP-", t>>

\* the fields both functions write with a payment: status, paidDate,
\* receiptNumber
Paid(due, t) ==
    [status |-> "paid", paidDate |-> t, receiptNumber |-> ReceiptNumber(t)]
        @@ due

\* the records that carry a receiptNumber
Receipted == {d \in BagToSet(dues) : "receiptNumber" \in DOMAIN d}

ReceiptsInit ==
    /\ members = <<MemberA, MemberB("active")>>
    \* a due the generator created earlier; no generator is mounted
    /\ dues = SetToBag({NewDue(MemberA, JoinDate(MemberA))})
    /\ activities = {}
    /\ now = parseISO(<<2024, 1, 30>>)
    /\ membersView = [c \in Clients |-> <<>>]
    /\ pendingTrigger = [c \in Clients |-> FALSE]
    /\ processingRef = [c \in Clients |-> FALSE]
    /\ pc = [c \in Clients |-> "idle"]
    /\ passMembers = [c \in Clients |-> <<>>]
    /\ today = [c \in Clients |-> 0]
    /\ idx = [c \in Clients |-> 0]
    /\ freshMemberDues = [c \in Clients |-> EmptyBag]
    /\ latestPeriodEnd = [c \in Clients |-> 0]
    /\ chain = [c \in Clients |-> <<>>]
    /\ quiet = "disturbed"
    /\ ChatAtRest
    /\ nowMs = MountTime
    /\ lastTypingWriteRef = 0
    /\ typingTimeoutRef = NoTimer
    /\ typing = NoTyping
    /\ typingWrites = NoWrites
    /\ lastSetTyping = NoWrite
    /\ PresenceAtRest

\* recordPayment(payment) of some client: addDoc, then addActivity
RecordPaymentAt(m, period) ==
    /\ BagCardinality(dues) < MaxDues
    /\ Cardinality(Receipted) < MaxReceipts
    /\ dues' = dues (+) SetToBag({Paid(PaidDue(members[m], period), nowMs)})
    /\ activities' = activities \cup {<<"payment", members[m].id>>}
    /\ UNCHANGED <<members, now, feeHook, feeHist, chatVars, nowMs,
                   lastTypingWriteRef, typingTimeoutRef, typing, typingWrites,
                   lastSetTyping, presenceVars>>

\* markDuePaid(dueId, memberName, amount) of some client: updateDoc, then
\* addActivity with memberId ''
MarkDuePaid(d) ==
    /\ BagIn(d, dues)
    /\ d.status = "pending"
    /\ Cardinality(Receipted) < MaxReceipts
    /\ dues' = (dues (-) SetToBag({d})) (+) SetToBag({Paid(d, nowMs)})
    /\ activities' = activities \cup {<<"payment", 0>>}
    /\ UNCHANGED <<members, now, feeHook, feeHist, chatVars, nowMs,
                   lastTypingWriteRef, typingTimeoutRef, typing, typingWrites,
                   lastSetTyping, presenceVars>>

ReceiptsNext ==
    \/ \E m \in 1..Len(members), period \in PayPeriods :
          RecordPaymentAt(m, period)
    \/ \E d \in BagToSet(dues) : MarkDuePaid(d)
    \/ TypingTick

SpecReceipts == ReceiptsInit /\ [][ReceiptsNext]_vars

\* C21: no two FeeRecords carry the same receiptNumber
C21_UniqueReceipts ==
    \A d \in Receipted :
        /\ CopiesIn(d, dues) = 1
        /\ \A e \in Receipted \ {d} : e.receiptNumber # d.receiptNumber


\* C22: processingRef is true exactly while a pass of the instance is in
\* progress, also after a pass that ended with an error; the effect running
\* during a pass changes nothing of the pass and leaves no trigger behind;
\* the effect running with no pass in progress starts one if there is an
\* active member.
C22_OnePassAtATime ==
    /\ [](\A c \in Clients : processingRef[c] <=> pc[c] # "idle")
    /\ [][\A c \in Clients :
             (pendingTrigger[c] /\ ~pendingTrigger'[c])
             => IF pc[c] # "idle"
                   THEN /\ pc'[c] = pc[c]
                        /\ idx'[c] = idx[c]
                        /\ today'[c] = today[c]
                        /\ passMembers'[c] = passMembers[c]
                        /\ freshMemberDues'[c] = freshMemberDues[c]
                        /\ latestPeriodEnd'[c] = latestPeriodEnd[c]
                        /\ processingRef'[c]
                   ELSE NextActive(membersView[c], 0) # 0
                        => pc'[c] = "fetch" /\ processingRef'[c]]_vars

\* the pass of instance 1 has created a FeeRecord, and the trigger this made
\* has been ignored since; instance 2 is idle with its flag clear, after a
\* pass of its own
C22_Witness ==
    /\ pc[1] = "loop"
    /\ chain[1] # <<>>
    /\ ~pendingTrigger[1]
    /\ processingRef[1]
    /\ pc[2] = "idle"
    /\ ~pendingTrigger[2]
    /\ membersView[2] # <<>>


\* C23: the local list never holds two entries with the same id, and a
\* child-added event delivered before the baseline read has resolved leaves
\* the list as it is.
C23_GateAndNoDuplicates ==
    /\ [](Cardinality({localMessages[i].id : i \in 1..Len(localMessages)})
             = Len(localMessages))
    /\ [][(/\ events # <<>>
           /\ Head(events).kind = "added"
           /\ events' = Tail(events)
           /\ ~initialLoadDone)
          => localMessages' = localMessages]_vars

\* the baseline has been loaded and every event delivered, a message was
\* changed before the baseline resolved, and the last message of the room
\* is missing from the list: its child-added event came before the baseline
C23_Witness ==
    /\ ~cancelled
    /\ windowGet.st = "done"
    /\ initialLoadDone
    /\ events = <<>>
    /\ \E i \in 1..Len(log[viewRoom]) : log[viewRoom][i].type = "deleted"
    /\ localMessages # <<>>
    /\ localMessages[Len(localMessages)].id < Len(log[viewRoom])


\* C24: once the baseline read has resolved and every event on its way has
\* been delivered to the live subscription, each of the last W messages of
\* the room is in the local list
C24_DeliveredOnceQuiet ==
    (~cancelled /\ windowGet.st = "done" /\ events = <<>>)
    => LimitToLast(viewRoom, Limit(viewRoom))
          \subseteq {localMessages[i].id : i \in 1..Len(localMessages)}


\* C25: the local list is in the order of the ids (the room's order)
C25_InLogOrder ==
    \A i \in 1..(Len(localMessages) - 1) :
        localMessages[i].id < localMessages[i + 1].id

-----------------------------------------------------------------------------
(* Presence: usePresence of one member. The tab is shown and hidden, the   *)
(* socket connects and drops, the page is unloaded or the hook torn down.  *)
(* set() and onDisconnect().set() are sent to the server in the order      *)
(* they were called and applied there one at a time; what was not sent     *)
(* when the socket dropped is sent after the next connect.                 *)

\* setOnline(): set(presenceRef, online), then onDisconnect(...).set(offline)
setOnline(box) == box \o <<"online", "hook">>

\* setOffline(): set(presenceRef, offline)
setOffline(box) == box \o <<"offline">>

\* history: one more event
Happened(event) ==
    /\ presenceEvents < MaxEvents
    /\ presenceEvents' = presenceEvents + 1
    /\ lastEvent' = event

PresenceInit ==
    /\ members = ChatMemberList
    /\ FeeAtRest
    /\ ChatAtRest
    /\ nowMs = 0
    /\ lastTypingWriteRef = 0
    /\ typingTimeoutRef = NoTimer
    /\ typing = NoTyping
    /\ typingWrites = NoWrites
    /\ lastSetTyping = NoWrite
    /\ mounted = TRUE
    /\ tab \in {"visible", "hidden"}
    /\ connected = FALSE
    /\ outbox = <<>>
    /\ online = FALSE
    /\ onDisconnectSet = FALSE
    /\ presenceEvents = 0
    /\ lastEvent = "none"

\* the socket connects: onValue(connectedRef) delivers true
Connect ==
    /\ ~connected
    /\ tab # "gone"
    /\ Happened("connect")
    /\ connected' = TRUE
    /\ outbox' = IF mounted THEN setOnline(outbox) ELSE outbox
    /\ UNCHANGED <<mounted, tab, online, onDisconnectSet, nowMs,
                   lastTypingWriteRef, typingTimeoutRef, typing, typingWrites,
                   lastSetTyping, chatVars, feeVars>>

\* the socket drops: the server runs the on-disconnect write, if it holds one
Disconnect ==
    /\ connected
    /\ Happened("disconnect")
    /\ connected' = FALSE
    /\ IF onDisconnectSet
          THEN /\ online' = FALSE
               /\ typing' = NoTyping
          ELSE UNCHANGED <<online, typing>>
    /\ onDisconnectSet' = FALSE
    /\ outbox' = IF tab = "gone" THEN <<>> ELSE outbox
    /\ UNCHANGED <<mounted, tab, nowMs, lastTypingWriteRef, typingTimeoutRef,
                   typingWrites, lastSetTyping, chatVars, feeVars>>

\* handleVisibility: the tab is hidden, or shown again
HandleVisibility ==
    /\ mounted
    /\ \/ /\ tab = "visible"
          /\ tab' = "hidden"
          /\ Happened("hidden")
          /\ outbox' = setOffline(outbox)
       \/ /\ tab = "hidden"
          /\ tab' = "visible"
          /\ Happened("visible")
          /\ outbox' = setOnline(outbox)
    /\ UNCHANGED <<mounted, connected, online, onDisconnectSet, nowMs,
                   lastTypingWriteRef, typingTimeoutRef, typing, typingWrites,
                   lastSetTyping, chatVars, feeVars>>

\* handleBeforeUnload: the page is unloaded
HandleBeforeUnload ==
    /\ mounted
    /\ tab # "gone"
    /\ Happened("unload")
    /\ tab' = "gone"
    /\ outbox' = setOffline(outbox)
    /\ UNCHANGED <<mounted, connected, online, onDisconnectSet, nowMs,
                   lastTypingWriteRef, typingTimeoutRef, typing, typingWrites,
                   lastSetTyping, chatVars, feeVars>>

\* the effect's cleanup
PresenceTeardown ==
    /\ mounted
    /\ tab # "gone"
    /\ Happened("teardown")
    /\ mounted' = FALSE
    /\ outbox' = setOffline(outbox)
    /\ UNCHANGED <<tab, connected, online, onDisconnectSet, nowMs,
                   lastTypingWriteRef, typingTimeoutRef, typing, typingWrites,
                   lastSetTyping, chatVars, feeVars>>

\* the member types in the shown tab: setTyping writes the typing field
PresenceTypes ==
    /\ mounted
    /\ tab = "visible"
    /\ presenceEvents < MaxEvents
    /\ presenceEvents' = presenceEvents + 1
    /\ outbox' = Append(outbox, "typing")
    /\ UNCHANGED <<mounted, tab, connected, online, onDisconnectSet, lastEvent,
                   nowMs, lastTypingWriteRef, typingTimeoutRef, typing,
                   typingWrites, lastSetTyping, chatVars, feeVars>>

\* the server applies the client's oldest write
ServerApplies ==
    /\ connected
    /\ outbox # <<>>
    /\ outbox' = Tail(outbox)
    /\ online' = CASE Head(outbox) = "online"  -> TRUE
                  [] Head(outbox) = "offline" -> FALSE
                  [] OTHER -> online
    /\ typing' = CASE Head(outbox) \in {"online", "offline"} -> NoTyping
                  [] Head(outbox) = "typing" -> GroupRoom
                  [] OTHER -> typing
    /\ onDisconnectSet' = (onDisconnectSet \/ Head(outbox) = "hook")
    /\ UNCHANGED <<mounted, tab, connected, presenceEvents, lastEvent, nowMs,
                   lastTypingWriteRef, typingTimeoutRef, typingWrites,
                   lastSetTyping, chatVars, feeVars>>

PresenceNext ==
    \/ Connect
    \/ Disconnect
    \/ HandleVisibility
    \/ HandleBeforeUnload
    \/ PresenceTeardown
    \/ PresenceTypes
    \/ ServerApplies

SpecPresence == PresenceInit /\ [][PresenceNext]_vars

\* C27: once the last event of the tab and the socket is a hidden, unload,
\* teardown or disconnect event and the server has applied what it can, the
\* presence record reads online = false and typing = null
C27_OfflineAfterLast ==
    /\ lastEvent \in {"hidden", "unload", "teardown", "disconnect"}
    /\ (outbox = <<>> \/ ~connected)
    => /\ online = FALSE
       /\ typing = NoTyping

\* C28: once every send has appended its message and every chat-meta write
\* has landed, none having failed, the ChatMeta of a room names the sender
\* and the preview of the last message of its log
C28_MetaDescribesLast ==
    /\ \A m \in Senders : sendPc[m] # "push"
    /\ metaWrites = {}
    => \A roomId \in Rooms :
           log[roomId] # <<>> =>
               LET last == log[roomId][Len(log[roomId])]
               IN  chatMeta[roomId] =
                       [lastMessage  |-> LastMessage(last.type, last.content),
                        lastSenderId |-> last.senderId]

\* C29: while the reader keeps the room open, a counter above 0, such as
\* one left by an increment that landed after the reader's reset, becomes 0
\* again
C29_BadgeClears ==
    \A m \in Readers, roomId \in Rooms :
        (unread[m][roomId] > 0) ~> (unread[m][roomId] = 0)

\* the reader reset the counter, an increment landed after that, and no
\* send is in progress: the badge is stale
C29_Witness ==
    \E m \in Readers, roomId \in Rooms :
        /\ voided[m][roomId]
        /\ unread[m][roomId] > 0
        /\ \A s \in Senders : sendPc[s] = "idle"

-----------------------------------------------------------------------------
(* One instance of the generator and an admin who records and deletes      *)
(* payments while it runs; days pass only before the instance has its      *)
(* members, no addDoc rejects.                                             *)

SpecFeeChange ==
    Init /\ [][\/ MembersSnapshot(1)
               \/ Effect(1)
               \/ Fetch(1)
               \/ CreateDue(1)
               \/ EndChain(1)
               \/ \E m \in 1..Len(members), period \in PayPeriods :
                     RecordPayment(m, period)
               \/ \E d \in BagToSet(dues) : DeletePayment(d)
               \/ \E d \in ClockDays : membersView[1] = <<>> /\ Tick(d)]_vars

\* C30: once the instance is idle with no change of [members, dues] left to
\* see, no active member of 30 days or more has a latest period that ended
\* 30 or more days ago with the next period still missing: a change that
\* arrived during a pass was not lost
C30_NoChangeLost ==
    /\ pc[1] = "idle"
    /\ ~pendingTrigger[1]
    /\ membersView[1] = members
    => \A i \in 1..Len(members) :
           LET member == members[i]
               fresh  == FreshMemberDues(member.id)
               latest == LatestPeriodEnd(fresh, JoinDate(member))
           IN  /\ member.status = "active"
               /\ differenceInDays(now, JoinDate(member)) >= 30
               => \/ ~PeriodDue(now, latest)
                  \/ Overlapping(fresh, latest)

====
